---- MODULE Spec2Model ----
(***************************************************************************)
(* DataBot.http_call of techsupport_bot/base/data.py: the per-host sliding *)
(* window rate limiter, the expiring response cache and the normalisation  *)
(* of the response, run by cooperatively scheduled tasks.                  *)
(*                                                                         *)
(* Time is the integer clock `now` (time.time()).  A task gives up control *)
(* only at an await: the limiter, the cache lookup and, on a hit, the      *)
(* cache store of one call are one step; the transport call is a           *)
(* suspension, and the step that resumes it stores the response.  The      *)
(* awaits after the store (logging, reading the body) touch no shared      *)
(* state, so they are folded into the step that stores.                    *)
(*                                                                         *)
(* Beside it, two more parts of the bot: the note commands of              *)
(* techsupport_bot/commands/who.py (the reader check and set_note, whose   *)
(* database write and role assignment are suspensions) and the plugin      *)
(* loader of basement_bot/plugin.py, which runs without suspension.        *)
(***************************************************************************)
EXTENDS Integers, Sequences, FiniteSets, TLC

VARIABLES
    now,                     \* time.time()
    url_rate_limit_history,  \* host -> deque of the times of its calls
    http_cache,              \* the ExpiringDict, in insertion order
    tasks,                   \* each task's place in http_call and its locals
    permitted,               \* history variable: per policy host, the times
                             \* of the calls the limiter let pass within the
                             \* host's window before now
    retryAt,                 \* history variable: per policy host, the time
                             \* the last rejection asked the caller to wait
                             \* for, -1 once a call to the host has passed
    ev,                      \* the last step: what was called and what it
                             \* returned or raised
    config,                  \* the guild's configuration of the who extension
    guild_roles,             \* the names of the roles of the guild
    member_roles,            \* member -> the names of the roles they hold
    notes,                   \* the UserNote rows of the guild, oldest first
    note_pk,                 \* the last primary key the table has issued
    handlers,                \* each command handler's place and its locals
    whoEv,                   \* the last step of the who extension
    plugin_files,            \* what glob returned for plugins/*.py, in order
    bot_commands,            \* the objects the bot holds as commands
    loaderEv                 \* what load_plugins did

httpVars == <<now, url_rate_limit_history, http_cache, tasks, permitted,
              retryAt, ev>>

whoVars == <<config, guild_roles, member_roles, notes, note_pk, handlers,
             whoEv>>

loaderVars == <<plugin_files, bot_commands, loaderEv>>

vars == <<httpVars, whoVars, loaderVars>>

----------------------------------------------------------------------------
\* Bounds of the model.

\* the clock runs from 0 to MaxTime when the limiter is examined
MaxTime == 5

\* the clock runs from 0 to CacheMaxTime when the cache is examined
CacheMaxTime == 3

\* the clock runs from 0 to ResponseMaxTime when the results are examined
ResponseMaxTime == 1

\* the clock runs from 0 to ParamsMaxTime when the cache keys are examined
ParamsMaxTime == 1

\* the window of the one-call policies, in clock ticks
ShortWindow == 2

\* the window of the two-call policies, in clock ticks
LongWindow == 3

\* file_config.cache.http_cache_seconds, in clock ticks
http_cache_seconds == 2

\* file_config.cache.http_cache_length
http_cache_length == 2

\* set_note is refused once the guild holds MaxNotes notes
MaxNotes == 2

\* glob returns at most MaxFiles paths
MaxFiles == 3

Tasks == {"t1", "t2"}

----------------------------------------------------------------------------
\* Configuration and inputs.

\* self.rate_limits: host -> (calls, seconds)
rate_limits ==
    [h \in {"ipinfo.io", "api.urbandictionary.com"} |->
        IF h = "ipinfo.io" THEN <<1, ShortWindow>> ELSE <<2, LongWindow>>]

\* A URL is its sequence of tokens: the scheme, the authority, then the
\* characters of the path.  kwargs["params"] is a mapping in insertion
\* order, <<>> when not given.

Methods == {"get", "GET", "POST"}

BodyObject == "{\"data\": \"x\"}"
BodyArray == "[\"x\"]"
BodyScalar == "\"x\""
BodyMalformed == "<html>"

Bodies == {BodyObject, BodyArray, BodyScalar, BodyMalformed}

Statuses == {"200", "404"}

\* what the transport may answer
Responses == [status : Statuses, text : Bodies]

NoResponse == [status |-> "", text |-> "", obtained |-> -1]

NoResult == [type |-> "none", fields |-> {}, elems |-> <<>>]

----------------------------------------------------------------------------
\* Strings.

\* str.lower() on one token
LowerToken(tok) ==
    CASE tok = "A" -> "a"
      [] tok = "GET" -> "get"
      [] tok = "POST" -> "post"
      [] tok = "%2B" -> "%2b"
      [] OTHER -> tok

\* str.lower()
Lower(s) == [i \in 1..Len(s) |-> LowerToken(s[i])]

\* url.replace(" ", "%20").replace("+", "%2b")
EscapeUrl(url) ==
    [i \in 1..Len(url) |->
        IF url[i] = " " THEN "%20" ELSE IF url[i] = "+" THEN "%2b" ELSE url[i]]

\* urlparse(url).netloc
Netloc(url) == IF Len(url) >= 2 /\ url[1] = "http://" THEN url[2] ELSE ""

\* urllib.parse.quote_plus on one token
QuotePlus(tok) == IF tok = " " THEN "+" ELSE tok

\* "&".join of the quoted name=value pairs
RECURSIVE JoinPairs(_)
JoinPairs(pairs) ==
    IF pairs = <<>> THEN <<>>
    ELSE LET p == Head(pairs)
             one == <<QuotePlus(p[1]), "=", QuotePlus(p[2])>>
         IN  IF Len(pairs) = 1 THEN one
             ELSE one \o <<"&">> \o JoinPairs(Tail(pairs))

\* the alphabetical place of a parameter name
NameRank(name) == CASE name = "a" -> 1 [] name = "b" -> 2 [] OTHER -> 3

\* urlencode of the pairs sorted by name
urlencodeSorted(params) ==
    LET n == Len(params)
        sorted == CHOOSE q \in [1..n -> {params[i] : i \in 1..n}] :
                      /\ {q[i] : i \in 1..n} = {params[i] : i \in 1..n}
                      /\ \A i \in 1..(n - 1) :
                             NameRank(q[i][1]) <= NameRank(q[i + 1][1])
    IN  JoinPairs(sorted)

\* urllib.parse.urlencode: the pairs in the mapping's own order
urlencode(params) == JoinPairs(params)

CacheKey(url, params) ==
    LET cache_key == Lower(EscapeUrl(url))
    IN  IF params # <<>> THEN cache_key \o <<"?">> \o urlencode(params)
        ELSE cache_key

----------------------------------------------------------------------------
\* collections.deque with maxlen.

\* PopExpired with the window one tick short
RECURSIVE PopExpiredEarly(_, _, _)
PopExpiredEarly(dq, t, time_window) ==
    IF dq # <<>> /\ t - Head(dq) >= time_window - 1
    THEN PopExpiredEarly(Tail(dq), t, time_window)
    ELSE dq

\* the while loop of http_call: popleft while the oldest call left the window
RECURSIVE PopExpired(_, _, _)
PopExpired(dq, t, time_window) ==
    IF dq # <<>> /\ t - Head(dq) >= time_window
    THEN PopExpired(Tail(dq), t, time_window)
    ELSE dq

\* DequeAppend at the wrong end (appendleft)
DequeAppendLeft(dq, x, maxlen) ==
    IF Len(dq) >= maxlen THEN <<x>> \o SubSeq(dq, 1, Len(dq) - 1)
    ELSE <<x>> \o dq

\* DequeAppend that forgets the call
DequeAppendLost(dq, x, maxlen) == dq

\* deque.append: a full deque drops its oldest entry
DequeAppend(dq, x, maxlen) ==
    IF Len(dq) >= maxlen THEN Append(Tail(dq), x) ELSE Append(dq, x)

----------------------------------------------------------------------------
\* expiringdict.ExpiringDict: an ordered mapping key -> (value, set_time).

CacheIndex(cache, key) ==
    IF \E i \in 1..Len(cache) : cache[i].key = key
    THEN CHOOSE i \in 1..Len(cache) : cache[i].key = key
    ELSE 0

CacheDelete(cache, key) == SelectSeq(cache, LAMBDA e : e.key # key)

\* CacheFresh with the age limit one tick short
CacheFreshEarly(entry, t) == t - entry.set_time < http_cache_seconds - 1

\* the age test of ExpiringDict.__getitem__ and __contains__
CacheFresh(entry, t) == t - entry.set_time < http_cache_seconds

\* CacheGet that does not look at the age of the entry
CacheGetStale(cache, key, t) ==
    LET i == CacheIndex(cache, key)
    IN  IF i = 0 THEN [found |-> FALSE, value |-> NoResponse, cache |-> cache]
        ELSE [found |-> TRUE, value |-> cache[i].value, cache |-> cache]

\* ExpiringDict.get: the value when present and young, else nothing; an
\* expired entry is deleted
CacheGet(cache, key, t) ==
    LET i == CacheIndex(cache, key)
    IN  IF i = 0 THEN [found |-> FALSE, value |-> NoResponse, cache |-> cache]
        ELSE IF CacheFresh(cache[i], t)
        THEN [found |-> TRUE, value |-> cache[i].value, cache |-> cache]
        ELSE [found |-> FALSE, value |-> NoResponse,
              cache |-> CacheDelete(cache, key)]

\* ExpiringDict.__setitem__
CacheSet(cache, key, value, t) ==
    LET entry == [key |-> key, value |-> value, set_time |-> t]
        i == CacheIndex(cache, key)
        contains == i # 0 /\ CacheFresh(cache[i], t)
        afterContains == IF i # 0 /\ ~contains THEN CacheDelete(cache, key)
                         ELSE cache
        room == IF Len(cache) = http_cache_length
                THEN IF contains THEN CacheDelete(cache, key)
                     ELSE IF afterContains = <<>> THEN afterContains
                     ELSE Tail(afterContains)
                ELSE cache
        j == CacheIndex(room, key)
    IN  IF j = 0 THEN Append(room, entry)
        ELSE [room EXCEPT ![j] = entry]

----------------------------------------------------------------------------
\* Normalisation of a response (process_http_response, after the store).

\* response_object.json(): the parsed body, or a decode failure
Json(text) ==
    CASE text = BodyObject ->
            [ok |-> TRUE, type |-> "dict", fields |-> {<<"data", "x">>},
             elems |-> <<>>]
      [] text = BodyArray ->
            [ok |-> TRUE, type |-> "list", fields |-> {}, elems |-> <<"x">>]
      [] text = BodyScalar ->
            [ok |-> TRUE, type |-> "scalar", fields |-> {}, elems |-> <<"x">>]
      [] OTHER ->
            [ok |-> FALSE, type |-> "none", fields |-> {}, elems |-> <<>>]

\* d[k] = v on a mapping held as a set of <<key, value>> pairs
SetItem(fields, k, v) == {p \in fields : p[1] # k} \cup {<<k, v>>}

\* InjectStatus with the status of a successful call, whatever the response
InjectStatusOk(response, status) ==
    IF response.type = "dict"
    THEN [response EXCEPT !.fields = SetItem(response.fields, "status_code", "200")]
    ELSE response

\* response["status_code"] = status: item assignment by a string key works
\* on a mapping and raises TypeError on a list or a scalar
InjectStatus(response, status) ==
    IF response.type = "dict"
    THEN [response EXCEPT !.fields = SetItem(response.fields, "status_code", status)]
    ELSE response

\* ProcessResult that injects status_code into the raw result as well
ProcessResultRawInjected(response_object, get_raw_response) ==
    LET parsed == Json(response_object.text)
        response_json ==
            IF get_raw_response
            THEN [type |-> "dict",
                  fields |-> {<<"status", response_object.status>>,
                              <<"text", response_object.text>>},
                  elems |-> <<>>]
            ELSE IF parsed.ok
            THEN [type |-> parsed.type, fields |-> parsed.fields,
                  elems |-> parsed.elems]
            ELSE [type |-> "dict", fields |-> {}, elems |-> <<>>]
    IN  InjectStatus(response_json, response_object.status)

\* the value process_http_response returns
ProcessResult(response_object, get_raw_response) ==
    IF get_raw_response
    THEN [type |-> "dict",
          fields |-> {<<"status", response_object.status>>,
                      <<"text", response_object.text>>},
          elems |-> <<>>]
    ELSE LET parsed == Json(response_object.text)
             response_json ==
                 IF parsed.ok
                 THEN [type |-> parsed.type, fields |-> parsed.fields,
                       elems |-> parsed.elems]
                 ELSE [type |-> "dict", fields |-> {}, elems |-> <<>>]
         IN  InjectStatus(response_json, response_object.status)

\* ProcessLogs that keeps a decode failure to itself
ProcessLogsQuiet(response_object, get_raw_response) ==
    LET parsed == Json(response_object.text)
    IN  <<"INFO">>
        \o (IF ~get_raw_response /\ parsed.ok /\ parsed.type # "dict"
            THEN <<"WARNING">> ELSE <<>>)

\* the levels of the log records process_http_response sends, in order
ProcessLogs(response_object, get_raw_response) ==
    LET parsed == Json(response_object.text)
    IN  <<"INFO">>
        \o (IF ~get_raw_response /\ ~parsed.ok THEN <<"ERROR">> ELSE <<>>)
        \o (IF ~get_raw_response /\ parsed.ok /\ parsed.type # "dict"
            THEN <<"WARNING">> ELSE <<>>)

\* StoresResponse for every method
StoresEveryResponse(method) == TRUE

\* StoresResponse for no method
StoresNoResponse(method) == FALSE

\* process_http_response stores the response when the method is get
StoresResponse(method) == method = "get"

----------------------------------------------------------------------------
\* State.

IdleTask ==
    [pc |-> "idle", method |-> "", host |-> "", cache_key |-> <<>>,
     params |-> <<>>, use_cache |-> FALSE, get_raw_response |-> FALSE]

NoEv ==
    [kind |-> "init", host |-> "", method |-> "", cache_key |-> <<>>,
     params |-> <<>>, use_cache |-> FALSE, get_raw_response |-> FALSE, wait |-> 0,
     retry |-> -1, resp |-> NoResponse, result |-> NoResult, logs |-> <<>>]

\* the times of seq that lie in the window of length w that ends at t
InWindow(seq, t, w) == SelectSeq(seq, LAMBDA x : t - w < x /\ x <= t)

\* The who extension and the plugin loader when a specification leaves
\* them alone.

Members == {"alice", "bob"}

Handlers == {"h1", "h2"}

\* None, as a role or a role name
NoRole == "None"

\* the defaults of the extension's configuration, the extension enabled
DefaultConfig ==
    [enabled |-> TRUE, note_role |-> NoRole, note_bypass |-> <<"Moderator">>,
     note_readers |-> <<>>]

\* a handler that is not running; notes holds the rows a running handler
\* has fetched and deleted counts those it has deleted
IdleHandler ==
    [pc |-> "idle", invoker |-> "", user |-> "", notes |-> <<>>,
     deleted |-> 0]

NoWhoEv ==
    [op |-> "none", step |-> "", h |-> "", invoker |-> "", user |-> "",
     value |-> "", outcome |-> "", embed |-> "none", raised |-> FALSE,
     logged |-> FALSE]

WhoAtRest ==
    /\ config = DefaultConfig
    /\ guild_roles = {}
    /\ member_roles = [m \in Members |-> {}]
    /\ notes = <<>>
    /\ note_pk = 0
    /\ handlers = [h \in Handlers |-> IdleHandler]
    /\ whoEv = NoWhoEv

NoLoaderEv == [state |-> "none", calls |-> <<>>]

LoaderAtRest ==
    /\ plugin_files = <<>>
    /\ bot_commands = <<>>
    /\ loaderEv = NoLoaderEv

\* the bot after DataBot.__init__
HttpAtRest ==
    /\ now = 0
    /\ url_rate_limit_history = <<>>
    /\ http_cache = <<>>
    /\ tasks = [t \in Tasks |-> IdleTask]
    /\ permitted = [h \in DOMAIN rate_limits |-> <<>>]
    /\ retryAt = [h \in DOMAIN rate_limits |-> -1]
    /\ ev = NoEv

Init == HttpAtRest /\ WhoAtRest /\ LoaderAtRest

\* the host's deque, created empty when the host has no history yet
HistoryOf(history, root_url) ==
    IF root_url \in DOMAIN history THEN history[root_url] ELSE <<>>

SetHistory(history, root_url, dq) ==
    [h \in DOMAIN history \cup {root_url} |->
        IF h = root_url THEN dq ELSE history[h]]

\* TimeToWait as the time already spent in the window
TimeToWaitElapsed(dq, t, time_window) ==
    LET time_to_wait == t - Head(dq)
    IN  IF time_to_wait > 0 THEN time_to_wait ELSE 0

\* TimeToWait counted from the newest call in the deque
TimeToWaitNewest(dq, t, time_window) ==
    LET time_to_wait == time_window - (t - dq[Len(dq)])
    IN  IF time_to_wait > 0 THEN time_to_wait ELSE 0

\* time_to_wait of a rejection: what is left of the window of the oldest
\* call still in the deque, never negative
TimeToWait(dq, t, time_window) ==
    LET time_to_wait == time_window - (t - Head(dq))
    IN  IF time_to_wait > 0 THEN time_to_wait ELSE 0

\* RateLimit that appends now before it checks the quota
RateLimitAppendsFirst(history, root_url, t) ==
    LET executions_allowed == rate_limits[root_url][1]
        time_window == rate_limits[root_url][2]
        evicted == PopExpired(HistoryOf(history, root_url), t, time_window)
        appended == DequeAppend(evicted, t, executions_allowed)
    IN  IF Len(evicted) >= executions_allowed
        THEN [reject |-> TRUE,
              time_to_wait |-> TimeToWait(evicted, t, time_window),
              history |-> SetHistory(history, root_url, appended)]
        ELSE [reject |-> FALSE, time_to_wait |-> 0,
              history |-> SetHistory(history, root_url, appended)]

\* The limiter of http_call for a host with a policy: create the deque,
\* drop the calls that left the window, then reject or append now.
RateLimit(history, root_url, t) ==
    LET executions_allowed == rate_limits[root_url][1]
        time_window == rate_limits[root_url][2]
        evicted == PopExpired(HistoryOf(history, root_url), t, time_window)
    IN  IF Len(evicted) >= executions_allowed
        THEN [reject |-> TRUE,
              time_to_wait |-> TimeToWait(evicted, t, time_window),
              history |-> SetHistory(history, root_url, evicted)]
        ELSE [reject |-> FALSE, time_to_wait |-> 0,
              history |-> SetHistory(history, root_url,
                              DequeAppend(evicted, t, executions_allowed))]

\* NoLimit that creates a deque for the host all the same
NoLimitWithHistory(history, root_url) ==
    [reject |-> FALSE, time_to_wait |-> 0,
     history |-> SetHistory(history, root_url, HistoryOf(history, root_url))]

\* a host without a policy is not limited and gets no deque
NoLimit(history, root_url) == [reject |-> FALSE, time_to_wait |-> 0, history |-> history]

\* time.time() moves on, up to the horizon of the model
Tick(horizon) ==
    /\ now < horizon
    /\ now' = now + 1
    /\ ev' = [NoEv EXCEPT !.kind = "tick"]
    /\ permitted' = [h \in DOMAIN rate_limits |->
                         InWindow(permitted[h], now + 1, rate_limits[h][2])]
    /\ UNCHANGED <<url_rate_limit_history, http_cache, tasks, retryAt>>
    /\ UNCHANGED <<whoVars, loaderVars>>

\* http_call up to its first suspension: the limiter, the cache lookup and,
\* on a hit, the whole of process_http_response
HttpCall(t, method, url, params, use_cache, get_raw_response) ==
    LET root_url == Netloc(url)
        limited == root_url \in DOMAIN rate_limits
        limiter == IF limited
                   THEN RateLimit(url_rate_limit_history, root_url, now)
                   ELSE NoLimit(url_rate_limit_history, root_url)
        m == LowerToken(method)
        cache_key == CacheKey(url, params)
        lookup == use_cache /\ m = "get"
        got == CacheGet(http_cache, cache_key, now)
        hit == lookup /\ got.found
        looked == IF lookup THEN got.cache ELSE http_cache
        call == [NoEv EXCEPT !.host = root_url, !.method = m,
                             !.cache_key = cache_key, !.params = params,
                             !.use_cache = use_cache,
                             !.get_raw_response = get_raw_response,
                             !.retry = IF limited THEN retryAt[root_url]
                                       ELSE -1]
    IN  /\ tasks[t].pc = "idle"
        /\ UNCHANGED <<now, whoVars, loaderVars>>
        /\ url_rate_limit_history' = limiter.history
        /\ IF limiter.reject
           THEN /\ ev' = [call EXCEPT !.kind = "rejected",
                                      !.wait = limiter.time_to_wait]
                /\ retryAt' = [retryAt EXCEPT ![root_url] =
                                   now + limiter.time_to_wait]
                /\ UNCHANGED <<http_cache, tasks, permitted>>
           ELSE /\ permitted' =
                       IF limited
                       THEN [permitted EXCEPT ![root_url] = Append(@, now)]
                       ELSE permitted
                /\ retryAt' =
                       IF limited THEN [retryAt EXCEPT ![root_url] = -1]
                       ELSE retryAt
                /\ IF hit
                   THEN /\ http_cache' =
                               IF StoresResponse(m)
                               THEN CacheSet(looked, cache_key, got.value, now)
                               ELSE looked
                        /\ tasks' = tasks
                        /\ ev' = [call EXCEPT
                               !.kind = "cached",
                               !.resp = got.value,
                               !.result = ProcessResult(got.value, get_raw_response),
                               !.logs = ProcessLogs(got.value, get_raw_response)]
                   ELSE /\ http_cache' = looked
                        /\ tasks' = [tasks EXCEPT ![t] =
                               [pc |-> "transport", method |-> m,
                                host |-> root_url, cache_key |-> cache_key,
                                params |-> params, use_cache |-> use_cache,
                                get_raw_response |-> get_raw_response]]
                        /\ ev' = [call EXCEPT !.kind = "sent"]

\* the transport call returns a response: process_http_response stores it
\* for a get, normalises it and http_call returns
TransportReturn(t, answer) ==
    LET me == tasks[t]
        response_object == [status |-> answer.status, text |-> answer.text,
                            obtained |-> now]
    IN  /\ me.pc = "transport"
        /\ http_cache' =
               IF StoresResponse(me.method)
               THEN CacheSet(http_cache, me.cache_key, response_object, now)
               ELSE http_cache
        /\ tasks' = [tasks EXCEPT ![t] = IdleTask]
        /\ ev' = [NoEv EXCEPT
               !.kind = "fresh", !.host = me.host,
               !.method = me.method, !.cache_key = me.cache_key,
               !.params = me.params, !.use_cache = me.use_cache,
               !.get_raw_response = me.get_raw_response,
               !.resp = response_object,
               !.result = ProcessResult(response_object, me.get_raw_response),
               !.logs = ProcessLogs(response_object, me.get_raw_response)]
        /\ UNCHANGED <<now, url_rate_limit_history, permitted, retryAt>>
        /\ UNCHANGED <<whoVars, loaderVars>>

\* TransportFail that gives the slot of the failed call back to its host
TransportFailFreesSlot(t) ==
    LET me == tasks[t]
        dq == HistoryOf(url_rate_limit_history, me.host)
    IN  /\ me.pc = "transport"
        /\ tasks' = [tasks EXCEPT ![t] = IdleTask]
        /\ url_rate_limit_history' =
               IF me.host \in DOMAIN url_rate_limit_history /\ dq # <<>>
               THEN SetHistory(url_rate_limit_history, me.host,
                               SubSeq(dq, 1, Len(dq) - 1))
               ELSE url_rate_limit_history
        /\ ev' = [NoEv EXCEPT
               !.kind = "failed", !.host = me.host,
               !.method = me.method, !.cache_key = me.cache_key,
               !.params = me.params, !.use_cache = me.use_cache,
               !.get_raw_response = me.get_raw_response]
        /\ UNCHANGED <<now, http_cache, permitted, retryAt>>
        /\ UNCHANGED <<whoVars, loaderVars>>

\* TransportFail that leaves an empty response in the cache
TransportFailCaches(t) ==
    LET me == tasks[t]
    IN  /\ me.pc = "transport"
        /\ tasks' = [tasks EXCEPT ![t] = IdleTask]
        /\ http_cache' =
               IF StoresResponse(me.method)
               THEN CacheSet(http_cache, me.cache_key, NoResponse, now)
               ELSE http_cache
        /\ ev' = [NoEv EXCEPT
               !.kind = "failed", !.host = me.host,
               !.method = me.method, !.cache_key = me.cache_key,
               !.params = me.params, !.use_cache = me.use_cache,
               !.get_raw_response = me.get_raw_response]
        /\ UNCHANGED <<now, url_rate_limit_history, permitted, retryAt>>
        /\ UNCHANGED <<whoVars, loaderVars>>

\* the transport call raises: the exception leaves http_call
TransportFail(t) ==
    LET me == tasks[t]
    IN  /\ me.pc = "transport"
        /\ tasks' = [tasks EXCEPT ![t] = IdleTask]
        /\ ev' = [NoEv EXCEPT
               !.kind = "failed", !.host = me.host,
               !.method = me.method, !.cache_key = me.cache_key,
               !.params = me.params, !.use_cache = me.use_cache,
               !.get_raw_response = me.get_raw_response]
        /\ UNCHANGED <<now, url_rate_limit_history, http_cache, permitted,
                       retryAt>>
        /\ UNCHANGED <<whoVars, loaderVars>>

\* one step of the program, for the tasks T, the calls they may make, the
\* answers the transport may give and the time the clock may reach
NextOver(T, calls, answers, horizon) ==
    \/ Tick(horizon)
    \/ \E t \in T, c \in calls :
          HttpCall(t, c.method, c.url, c.params, c.use_cache,
                   c.get_raw_response)
    \/ \E t \in T, answer \in answers : TransportReturn(t, answer)
    \/ \E t \in T : TransportFail(t)

CallsOf(methods, urls, paramss, caches, raws) ==
    [method : methods, url : urls, params : paramss, use_cache : caches,
     get_raw_response : raws]

\* The limiter: two tasks calling a one-call policy host (with and without
\* the cache), a two-call policy host and a host without a policy.
LimiterCalls ==
    CallsOf({"get"}, { <<"http://", "ipinfo.io", "/", "a">> },
            { <<>> }, BOOLEAN, {FALSE})
    \cup CallsOf({"POST"},
                 { <<"http://", "api.urbandictionary.com", "/", "a">>,
                   <<"http://", "example.com", "/", "a">> },
                 { <<>> }, {FALSE}, {FALSE})

LimiterAnswers == {[status |-> "200", text |-> BodyObject]}

Next == NextOver(Tasks, LimiterCalls, LimiterAnswers, MaxTime)

Spec == Init /\ [][Next]_vars

\* The cache: two tasks calling a host without a policy, in every letter
\* case of the method, under one key spelt in two ways.
CacheCalls ==
    CallsOf(Methods,
            { <<"http://", "example.com", "/", "a">>,
              <<"http://", "example.com", "/", "A">> },
            { <<>> }, BOOLEAN, {FALSE})

CacheAnswers ==
    {[status |-> "200", text |-> BodyObject],
     [status |-> "404", text |-> BodyMalformed]}

NextCache == NextOver(Tasks, CacheCalls, CacheAnswers, CacheMaxTime)

SpecCache == Init /\ [][NextCache]_vars

\* The results: two tasks calling one URL, normalised or raw, with every
\* status and body the transport may answer.
ResponseCalls ==
    CallsOf({"get", "POST"}, { <<"http://", "example.com", "/", "a">> },
            { <<>> }, BOOLEAN, BOOLEAN)

NextResponse == NextOver(Tasks, ResponseCalls, Responses, ResponseMaxTime)

SpecResponse == Init /\ [][NextResponse]_vars

\* The query parameters: one task getting one URL without parameters and
\* with the same two parameters in either order, which makes three keys for
\* a cache of http_cache_length entries.
ParamsSet ==
    { <<>>,
      << <<"a", "1">>, <<"b", " ">> >>,
      << <<"b", " ">>, <<"a", "1">> >> }

ParamsCalls ==
    CallsOf({"get"}, { <<"http://", "example.com", "/", " ">> },
            ParamsSet, BOOLEAN, {FALSE})

NextParams == NextOver({"t1"}, ParamsCalls, CacheAnswers, ParamsMaxTime)

SpecParams == Init /\ [][NextParams]_vars

----------------------------------------------------------------------------
\* The note commands of the who extension.

\* discord.utils.get(guild.roles, name=name): the role of that name, or None
RoleByName(roles, name) == IF name \in roles THEN name ELSE NoRole

\* is_reader for a member holding user_roles: True, False, or the deny
\* embed and a CommandError when no reader role is configured
ReaderCheck(cfg, roles, user_roles) ==
    IF cfg.note_readers # <<>>
    THEN LET found == [i \in 1..Len(cfg.note_readers) |->
                           RoleByName(roles, cfg.note_readers[i])]
         IN  [outcome |-> IF \E i \in 1..Len(found) : found[i] \in user_roles
                          THEN "pass" ELSE "fail",
              embed |-> "none", raised |-> FALSE]
    ELSE [outcome |-> "fail", embed |-> "deny", raised |-> TRUE]

\* the reader check of a command invoked by a member
is_reader(invoker) ==
    LET r == ReaderCheck(config, guild_roles, member_roles[invoker])
    IN  /\ whoEv' = [NoWhoEv EXCEPT !.op = "is_reader", !.step = "check",
                                    !.invoker = invoker,
                                    !.outcome = r.outcome,
                                    !.embed = r.embed, !.raised = r.raised]
        /\ UNCHANGED <<config, guild_roles, member_roles, notes, note_pk,
                       handlers>>
        /\ UNCHANGED <<httpVars, loaderVars>>

\* HoldsBypass that gives up at the first name without a role in the guild
HoldsBypassUntilMissing(note_bypass, roles, user_roles) ==
    \E i \in 1..Len(note_bypass) :
       /\ \A j \in 1..i : RoleByName(roles, note_bypass[j]) # NoRole
       /\ RoleByName(roles, note_bypass[i]) \in user_roles

\* the loop of set_note over note_bypass: some name is a role of the guild
\* that the target holds
HoldsBypass(note_bypass, roles, user_roles) ==
    \E i \in 1..Len(note_bypass) :
       LET role_check == RoleByName(roles, note_bypass[i])
       IN  role_check # NoRole /\ role_check \in user_roles

\* the notes that were stored so far or are about to be
NotesDue ==
    note_pk + Cardinality({h \in Handlers : handlers[h].pc = "create"})

\* set_note up to note.create(): the two refusals, or the suspension in the
\* database write
set_note(h, invoker, user) ==
    LET call == [NoWhoEv EXCEPT !.op = "set_note", !.step = "check",
                                !.h = h, !.invoker = invoker, !.user = user]
    IN  /\ handlers[h].pc = "idle"
        /\ NotesDue < MaxNotes
        /\ IF invoker = user
           THEN /\ whoEv' = [call EXCEPT !.outcome = "self", !.embed = "deny"]
                /\ UNCHANGED handlers
           ELSE IF HoldsBypass(config.note_bypass, guild_roles,
                               member_roles[user])
           THEN /\ whoEv' = [call EXCEPT !.outcome = "bypass",
                                         !.embed = "deny"]
                /\ UNCHANGED handlers
           ELSE /\ whoEv' = [call EXCEPT !.outcome = "pending"]
                /\ handlers' = [handlers EXCEPT ![h] =
                       [IdleHandler EXCEPT !.pc = "create",
                                           !.invoker = invoker,
                                           !.user = user]]
        /\ UNCHANGED <<config, guild_roles, member_roles, notes, note_pk>>
        /\ UNCHANGED <<httpVars, loaderVars>>

\* note.create() returns: the row is stored; without a note role in the
\* guild the command ends here, else it suspends in add_roles
set_note_create(h) ==
    LET me == handlers[h]
        role == RoleByName(guild_roles, config.note_role)
        call == [NoWhoEv EXCEPT !.op = "set_note", !.step = "create",
                                !.h = h, !.invoker = me.invoker,
                                !.user = me.user]
    IN  /\ me.pc = "create"
        /\ note_pk' = note_pk + 1
        /\ notes' = Append(notes, [id |-> note_pk + 1, user |-> me.user,
                                   author |-> me.invoker])
        /\ IF role = NoRole
           THEN /\ handlers' = [handlers EXCEPT ![h] = IdleHandler]
                /\ whoEv' = [call EXCEPT !.outcome = "no_role",
                                         !.embed = "confirm"]
           ELSE /\ handlers' = [handlers EXCEPT ![h].pc = "add_roles"]
                /\ whoEv' = [call EXCEPT !.outcome = "pending"]
        /\ UNCHANGED <<config, guild_roles, member_roles>>
        /\ UNCHANGED <<httpVars, loaderVars>>

\* user.add_roles(role) returns: the target holds the note role
set_note_add_roles(h) ==
    LET me == handlers[h]
        role == RoleByName(guild_roles, config.note_role)
    IN  /\ me.pc = "add_roles"
        /\ member_roles' = [member_roles EXCEPT ![me.user] = @ \cup {role}]
        /\ handlers' = [handlers EXCEPT ![h] = IdleHandler]
        /\ whoEv' = [NoWhoEv EXCEPT !.op = "set_note", !.step = "add_roles",
                                    !.h = h,
                                    !.invoker = me.invoker, !.user = me.user,
                                    !.outcome = "created",
                                    !.embed = "confirm"]
        /\ UNCHANGED <<config, guild_roles, notes, note_pk>>
        /\ UNCHANGED <<httpVars, loaderVars>>

\* the configurations examined: the defaults, lists that name a role the
\* guild does not have, and an empty bypass list
WhoConfigs ==
    { DefaultConfig,
      [enabled |-> TRUE, note_role |-> "Noted",
       note_bypass |-> <<"Ghost", "Moderator">>,
       note_readers |-> <<"Ghost", "Reader">>],
      [enabled |-> TRUE, note_role |-> "Noted", note_bypass |-> <<>>,
       note_readers |-> <<"Reader">>] }

\* the guild with and without the note role
GuildRoleSets ==
    { {"Moderator", "Reader", "Noted"}, {"Moderator", "Reader"} }

InitWho ==
    /\ HttpAtRest
    /\ LoaderAtRest
    /\ config \in WhoConfigs
    /\ guild_roles \in GuildRoleSets
    /\ member_roles \in [Members -> SUBSET {"Moderator", "Reader"}]
    /\ notes = <<>>
    /\ note_pk = 0
    /\ handlers = [h \in Handlers |-> IdleHandler]
    /\ whoEv = NoWhoEv

NextWho ==
    \/ \E invoker \in Members : is_reader(invoker)
    \/ \E h \in Handlers, invoker \in Members, user \in Members :
          set_note(h, invoker, user)
    \/ \E h \in Handlers : set_note_create(h)
    \/ \E h \in Handlers : set_note_add_roles(h)

SpecWho == InitWho /\ [][NextWho]_vars

----------------------------------------------------------------------------
\* clear_notes.

\* what view.value can be after view.wait(); clear_notes tests for TIMEOUT
\* and DENIED and takes anything else as the confirmation
ConfirmValues == {"CONFIRMED", "DENIED", "TIMEOUT"}

Reverse(seq) == [i \in 1..Len(seq) |-> seq[Len(seq) + 1 - i]]

\* get_notes: the rows of the user, newest first
get_notes(rows, user) ==
    Reverse(SelectSeq(rows, LAMBDA n : n.user = user))

\* note.delete(): the row with the key of the note is gone, if it was there
NoteDelete(rows, note) == SelectSeq(rows, LAMBDA n : n.id # note.id)

\* clear_notes up to view.wait(): the rows are fetched; without rows the
\* command ends with a deny embed, else the prompt is shown and the command
\* suspends until it is answered
clear_notes(h, invoker, user) ==
    LET fetched == get_notes(notes, user)
        call == [NoWhoEv EXCEPT !.op = "clear_notes", !.step = "fetch",
                                !.h = h, !.invoker = invoker, !.user = user]
    IN  /\ handlers[h].pc = "idle"
        /\ IF fetched = <<>>
           THEN /\ whoEv' = [call EXCEPT !.outcome = "no_notes",
                                         !.embed = "deny"]
                /\ UNCHANGED handlers
           ELSE /\ whoEv' = [call EXCEPT !.outcome = "prompt"]
                /\ handlers' = [handlers EXCEPT ![h] =
                       [IdleHandler EXCEPT !.pc = "confirm",
                                           !.invoker = invoker,
                                           !.user = user,
                                           !.notes = fetched]]
        /\ UNCHANGED <<config, guild_roles, member_roles, notes, note_pk>>
        /\ UNCHANGED <<httpVars, loaderVars>>

\* WaitOutcome that tests for DENIED only
WaitOutcomeDeniedOnly(value) ==
    IF value = "DENIED" THEN "denied" ELSE "confirmed"

\* the two tests clear_notes makes of view.value
WaitOutcome(value) ==
    IF value = "TIMEOUT" THEN "timeout"
    ELSE IF value = "DENIED" THEN "denied"
    ELSE "confirmed"

\* view.wait() returns: the command ends on TIMEOUT, ends with a deny embed
\* on DENIED, and else suspends in the first note.delete()
clear_notes_answer(h, value) ==
    LET me == handlers[h]
        outcome == WaitOutcome(value)
        call == [NoWhoEv EXCEPT !.op = "clear_notes", !.step = "answer",
                                !.h = h, !.invoker = me.invoker,
                                !.user = me.user, !.value = value,
                                !.outcome = outcome]
    IN  /\ me.pc = "confirm"
        /\ IF outcome = "timeout"
           THEN /\ whoEv' = call
                /\ handlers' = [handlers EXCEPT ![h] = IdleHandler]
           ELSE IF outcome = "denied"
           THEN /\ whoEv' = [call EXCEPT !.embed = "deny"]
                /\ handlers' = [handlers EXCEPT ![h] = IdleHandler]
           ELSE /\ whoEv' = call
                /\ handlers' = [handlers EXCEPT ![h].pc = "delete"]
        /\ UNCHANGED <<config, guild_roles, member_roles, notes, note_pk>>
        /\ UNCHANGED <<httpVars, loaderVars>>

\* a note.delete() returns: the next fetched row is deleted; after the last
\* one the command ends when the guild has no note role, else it suspends
\* in remove_roles
clear_notes_delete(h) ==
    LET me == handlers[h]
        note == me.notes[me.deleted + 1]
        role == RoleByName(guild_roles, config.note_role)
        call == [NoWhoEv EXCEPT !.op = "clear_notes", !.step = "delete",
                                !.h = h, !.invoker = me.invoker,
                                !.user = me.user]
    IN  /\ me.pc = "delete"
        /\ notes' = NoteDelete(notes, note)
        /\ IF me.deleted + 1 < Len(me.notes)
           THEN /\ handlers' = [handlers EXCEPT ![h].deleted = @ + 1]
                /\ whoEv' = [call EXCEPT !.outcome = "pending"]
           ELSE IF role = NoRole
           THEN /\ handlers' = [handlers EXCEPT ![h] = IdleHandler]
                /\ whoEv' = [call EXCEPT !.outcome = "cleared",
                                         !.embed = "confirm"]
           ELSE /\ handlers' = [handlers EXCEPT ![h].deleted = @ + 1,
                                                ![h].pc = "remove_roles"]
                /\ whoEv' = [call EXCEPT !.outcome = "pending"]
        /\ UNCHANGED <<config, guild_roles, member_roles, note_pk>>
        /\ UNCHANGED <<httpVars, loaderVars>>

\* user.remove_roles(role) returns: the user no longer holds the note role
clear_notes_remove_roles(h) ==
    LET me == handlers[h]
        role == RoleByName(guild_roles, config.note_role)
    IN  /\ me.pc = "remove_roles"
        /\ member_roles' = [member_roles EXCEPT ![me.user] = @ \ {role}]
        /\ handlers' = [handlers EXCEPT ![h] = IdleHandler]
        /\ whoEv' = [NoWhoEv EXCEPT !.op = "clear_notes",
                                    !.step = "remove_roles", !.h = h,
                                    !.invoker = me.invoker, !.user = me.user,
                                    !.outcome = "cleared",
                                    !.embed = "confirm"]
        /\ UNCHANGED <<config, guild_roles, notes, note_pk>>
        /\ UNCHANGED <<httpVars, loaderVars>>

\* the configuration examined with clear_notes: a note role and no bypass
ClearConfigs ==
    { [enabled |-> TRUE, note_role |-> "Noted", note_bypass |-> <<>>,
       note_readers |-> <<>>] }

InitClear ==
    /\ HttpAtRest
    /\ LoaderAtRest
    /\ config \in ClearConfigs
    /\ guild_roles \in GuildRoleSets
    /\ member_roles = [m \in Members |-> {}]
    /\ notes = <<>>
    /\ note_pk = 0
    /\ handlers = [h \in Handlers |-> IdleHandler]
    /\ whoEv = NoWhoEv

\* set_note and clear_notes, run by two handlers at a time
NextClear ==
    \/ \E h \in Handlers, invoker \in Members, user \in Members :
          set_note(h, invoker, user)
    \/ \E h \in Handlers : set_note_create(h)
    \/ \E h \in Handlers : set_note_add_roles(h)
    \/ \E h \in Handlers, invoker \in Members, user \in Members :
          clear_notes(h, invoker, user)
    \/ \E h \in Handlers, value \in ConfirmValues :
          clear_notes_answer(h, value)
    \/ \E h \in Handlers : clear_notes_delete(h)
    \/ \E h \in Handlers : clear_notes_remove_roles(h)

SpecClear == InitClear /\ [][NextClear]_vars

----------------------------------------------------------------------------
\* on_member_join.

\* ReaddRole that does not look at the notes of the member
ReaddRoleWithoutNotes(cfg, roles, user_notes) ==
    IF ~cfg.enabled THEN NoRole ELSE RoleByName(roles, cfg.note_role)

\* the three tests of on_member_join: the role to add to the joining
\* member, or None when the extension is disabled, the guild has no note
\* role or the member has no notes
ReaddRole(cfg, roles, user_notes) ==
    IF ~cfg.enabled THEN NoRole
    ELSE LET role == RoleByName(roles, cfg.note_role)
         IN  IF role = NoRole THEN NoRole
             ELSE IF user_notes = <<>> THEN NoRole
             ELSE role

\* on_member_join up to member.add_roles(): the tests, the notes as
\* get_notes returns them, and either the end or the suspension in
\* add_roles
on_member_join(h, member) ==
    LET role == ReaddRole(config, guild_roles, get_notes(notes, member))
        call == [NoWhoEv EXCEPT !.op = "on_member_join", !.step = "check",
                                !.h = h, !.user = member]
    IN  /\ handlers[h].pc = "idle"
        /\ IF role = NoRole
           THEN /\ whoEv' = [call EXCEPT !.outcome = "ignored"]
                /\ UNCHANGED handlers
           ELSE /\ whoEv' = [call EXCEPT !.outcome = "pending"]
                /\ handlers' = [handlers EXCEPT ![h] =
                       [IdleHandler EXCEPT !.pc = "join_add",
                                           !.user = member]]
        /\ UNCHANGED <<config, guild_roles, member_roles, notes, note_pk>>
        /\ UNCHANGED <<httpVars, loaderVars>>

\* member.add_roles(role) returns: the member holds the note role and the
\* log message is sent
on_member_join_add_roles(h) ==
    LET me == handlers[h]
        role == RoleByName(guild_roles, config.note_role)
    IN  /\ me.pc = "join_add"
        /\ member_roles' = [member_roles EXCEPT ![me.user] = @ \cup {role}]
        /\ handlers' = [handlers EXCEPT ![h] = IdleHandler]
        /\ whoEv' = [NoWhoEv EXCEPT !.op = "on_member_join",
                                    !.step = "add_roles", !.h = h,
                                    !.user = me.user, !.outcome = "readded",
                                    !.logged = TRUE]
        /\ UNCHANGED <<config, guild_roles, notes, note_pk>>
        /\ UNCHANGED <<httpVars, loaderVars>>

\* the configurations examined with on_member_join: the extension enabled
\* or not, with and without a note role
JoinConfigs ==
    [enabled : BOOLEAN, note_role : {NoRole, "Noted"}, note_bypass : {<<>>},
     note_readers : {<<>>}]

\* the notes the table holds when a member joins
JoinNotes ==
    { <<>>,
      << [id |-> 1, user |-> "alice", author |-> "bob"] >>,
      << [id |-> 1, user |-> "bob", author |-> "alice"] >>,
      << [id |-> 1, user |-> "alice", author |-> "bob"],
         [id |-> 2, user |-> "bob", author |-> "alice"] >> }

InitJoin ==
    /\ HttpAtRest
    /\ LoaderAtRest
    /\ config \in JoinConfigs
    /\ guild_roles \in GuildRoleSets
    /\ member_roles \in [Members -> {{}, {"Reader"}}]
    /\ notes \in JoinNotes
    /\ note_pk = Len(notes)
    /\ handlers = [h \in Handlers |-> IdleHandler]
    /\ whoEv = NoWhoEv

NextJoin ==
    \/ \E h \in Handlers, member \in Members : on_member_join(h, member)
    \/ \E h \in Handlers : on_member_join_add_roles(h)

SpecJoin == InitJoin /\ [][NextJoin]_vars

----------------------------------------------------------------------------
\* The plugin loader.

\* what a top-level name of a module can be bound to
Callables == {"command", "function", "class"}

\* the files glob may return, each with the top-level names of its module
\* in the order of the module's dictionary; names are split where the code
\* looks at them
PluginFiles ==
    { [name |-> <<"__init__", ".py">>, isfile |-> TRUE, dict |-> <<>>],
      [name |-> <<"ping", ".py">>, isfile |-> TRUE,
       dict |-> << [name |-> <<"__", "name__">>, kind |-> "constant"],
                   [name |-> <<"commands">>, kind |-> "module"],
                   [name |-> <<"ping">>, kind |-> "command"] >>],
      [name |-> <<"pong", ".py">>, isfile |-> TRUE,
       dict |-> << [name |-> <<"__", "doc__">>, kind |-> "constant"],
                   [name |-> <<"pong">>, kind |-> "command"],
                   [name |-> <<"LIMIT">>, kind |-> "constant"] >>],
      [name |-> <<"giphy", ".py">>, isfile |-> TRUE,
       dict |-> << [name |-> <<"__", "name__">>, kind |-> "constant"],
                   [name |-> <<"random">>, kind |-> "module"],
                   [name |-> <<"commands">>, kind |-> "module"],
                   [name |-> <<"setup">>, kind |-> "function"],
                   [name |-> <<"Giphy">>, kind |-> "class"] >>],
      [name |-> <<"db", "__init__", ".py">>, isfile |-> TRUE,
       dict |-> << [name |-> <<"db">>, kind |-> "command"] >>],
      [name |-> <<"old", ".py">>, isfile |-> FALSE, dict |-> <<>>] }

\* f.endswith('__init__.py')
EndsWithInit(name) ==
    /\ Len(name) >= 2
    /\ name[Len(name) - 1] = "__init__"
    /\ name[Len(name)] = ".py"

\* name.startswith("__")
StartsWithMarker(name) == Len(name) >= 1 /\ name[1] = "__"

\* the files whose modules are imported
ModuleFiles(files) ==
    SelectSeq(files, LAMBDA f : f.isfile /\ ~EndsWithInit(f.name))

\* the names of a module for which add_command is called
Passed(dict) ==
    SelectSeq(dict, LAMBDA o : ~StartsWithMarker(o.name)
                               /\ o.name # <<"commands">>)

RECURSIVE PassedOf(_)
\* the objects the two loops of load_plugins reach, in order
PassedOf(files) ==
    IF files = <<>> THEN <<>>
    ELSE Passed(Head(files).dict) \o PassedOf(Tail(files))

\* bot.add_command: a Command is registered, anything else is a TypeError
add_command(commands, func) ==
    IF func.kind = "command"
    THEN [commands |-> Append(commands, func), raised |-> FALSE]
    ELSE [commands |-> commands, raised |-> TRUE]

RECURSIVE AddEach(_, _, _)
\* add_command for each object in turn, until one raises
AddEach(objs, commands, calls) ==
    IF objs = <<>>
    THEN [commands |-> commands, calls |-> calls, raised |-> FALSE]
    ELSE LET r == add_command(commands, Head(objs))
         IN  IF r.raised
             THEN [commands |-> commands, calls |-> Append(calls, Head(objs)),
                   raised |-> TRUE]
             ELSE AddEach(Tail(objs), r.commands, Append(calls, Head(objs)))

\* load_plugins, from the glob to the last add_command
load_plugins ==
    LET module_names == ModuleFiles(plugin_files)
        r == AddEach(PassedOf(module_names), bot_commands, <<>>)
    IN  /\ loaderEv.state = "ready"
        /\ bot_commands' = r.commands
        /\ loaderEv' = [state |-> IF r.raised THEN "raised" ELSE "loaded",
                        calls |-> r.calls]
        /\ UNCHANGED plugin_files
        /\ UNCHANGED <<httpVars, whoVars>>

\* the directory listings: up to MaxFiles different files in any order
DirListings ==
    { l \in UNION { [1..n -> PluginFiles] : n \in 0..MaxFiles } :
         \A i, j \in 1..Len(l) : l[i] = l[j] => i = j }

InitLoader ==
    /\ HttpAtRest
    /\ WhoAtRest
    /\ plugin_files \in DirListings
    /\ bot_commands = <<>>
    /\ loaderEv = [NoLoaderEv EXCEPT !.state = "ready"]

NextLoader == load_plugins

SpecLoader == InitLoader /\ [][NextLoader]_vars

----------------------------------------------------------------------------
\* Properties of the limiter.

PolicyHosts == DOMAIN rate_limits

Quota(h) == rate_limits[h][1]

Window(h) == rate_limits[h][2]

IsCall(e) == e.kind \in {"rejected", "cached", "sent"}

\* s is a suffix of seq and everything seq has in front of it is at least w
\* old at time t
ExpiredPrefixRemoved(seq, s, t, w) ==
    \E k \in 0..Len(seq) :
        /\ s = SubSeq(seq, k + 1, Len(seq))
        /\ \A i \in 1..k : t - seq[i] >= w

\* C1: for every policy host (quota Q, window W), at every time, at most Q of
\* the calls the limiter let pass have their timestamp in the W ticks that
\* end now, the window (now - W, now].
C1_AtMostQuotaInWindow ==
    \A h \in PolicyHosts : Len(permitted[h]) <= Quota(h)

\* the quota of a two-call host is used up and a further call was rejected
C1_Witness ==
    /\ ev.kind = "rejected"
    /\ ev.host = "api.urbandictionary.com"
    /\ Len(permitted["api.urbandictionary.com"]) = 2
    /\ permitted["api.urbandictionary.com"][1] < now

\* C2: a call to a policy host that already let Q calls pass within the
\* window is rejected with a wait t, 0 < t <= W; and a call to the host made
\* when the wait of the last rejection is over, no call to the host having
\* passed in between, is not rejected.
C2_RejectThenPassAfterWait ==
    [][\A h \in PolicyHosts :
          (IsCall(ev') /\ ev'.host = h) =>
              /\ Len(InWindow(permitted[h], now, Window(h))) >= Quota(h) =>
                     /\ ev'.kind = "rejected"
                     /\ 0 < ev'.wait
                     /\ ev'.wait <= Window(h)
              /\ (retryAt[h] # -1 /\ now >= retryAt[h]) =>
                     ev'.kind # "rejected"]_vars

\* a call passed the limiter after the wait a rejection asked for
C2_Witness ==
    /\ ev.kind = "sent"
    /\ ev.host \in PolicyHosts
    /\ ev.retry # -1
    /\ now >= ev.retry

\* C3: the limiter of one call runs without a suspension, so at every moment,
\* also while other tasks are suspended in their transport call, the deque
\* of a policy host holds the time of every call that passed within the
\* window: the check of the next task sees all of them.
C3_CheckSeesEveryPermittedCall ==
    \A h \in PolicyHosts :
        InWindow(HistoryOf(url_rate_limit_history, h), now, Window(h))
            = permitted[h]

\* a call is rejected because of a call of another task that is still
\* suspended in its transport call
C3_Witness ==
    /\ ev.kind = "rejected"
    /\ ev.host = "ipinfo.io"
    /\ \E t \in Tasks :
          /\ tasks[t].pc = "transport"
          /\ tasks[t].host = "ipinfo.io"

\* C4: a rejected call issues no transport call and neither reads nor writes
\* the cache; the deque of its host changes at most by losing timestamps
\* that left the window and no other deque changes.
C4_RejectionLeavesCacheAndHistory ==
    [][ev'.kind = "rejected" =>
          /\ http_cache' = http_cache
          /\ tasks' = tasks
          /\ permitted' = permitted
          /\ DOMAIN url_rate_limit_history' =
                 DOMAIN url_rate_limit_history \cup {ev'.host}
          /\ \A h \in DOMAIN url_rate_limit_history' :
                 IF h = ev'.host
                 THEN ExpiredPrefixRemoved(
                          HistoryOf(url_rate_limit_history, h),
                          url_rate_limit_history'[h], now, Window(h))
                 ELSE url_rate_limit_history'[h] = url_rate_limit_history[h]
       ]_vars

\* a rejected call that asked for the cache while the cache held an expired
\* entry under its key
C4_Witness ==
    /\ ev.kind = "rejected"
    /\ ev.use_cache
    /\ \E i \in 1..Len(http_cache) :
          /\ http_cache[i].key = ev.cache_key
          /\ ~CacheFresh(http_cache[i], now)

\* C8: a call to a host that is no key of rate_limits is never rejected and
\* no deque is ever created for such a host.
C8_NoPolicyNoLimit ==
    /\ DOMAIN url_rate_limit_history \subseteq PolicyHosts
    /\ ev.kind = "rejected" => ev.host \in PolicyHosts

\* two calls to a host without a policy are in flight at the same time
C8_Witness ==
    /\ ev.kind = "sent"
    /\ ev.host = "example.com"
    /\ \A t \in Tasks :
          /\ tasks[t].pc = "transport"
          /\ tasks[t].host = "example.com"

\* C9: the deque of every host is no longer than the host's quota and its
\* timestamps do not decrease from front to back.
C9_HistoryBoundedAndSorted ==
    \A h \in DOMAIN url_rate_limit_history :
        LET dq == url_rate_limit_history[h]
        IN  /\ h \in PolicyHosts
            /\ Len(dq) <= Quota(h)
            /\ \A i \in 1..(Len(dq) - 1) : dq[i] <= dq[i + 1]

\* a full deque of two calls made at different times
C9_Witness ==
    /\ "api.urbandictionary.com" \in DOMAIN url_rate_limit_history
    /\ LET dq == url_rate_limit_history["api.urbandictionary.com"]
       IN  /\ Len(dq) = 2
           /\ dq[1] < dq[2]

----------------------------------------------------------------------------
\* Properties of the cache.

Returned(e) == e.kind \in {"cached", "fresh"}

\* C5: a response served from the cache was obtained from the transport at
\* most http_cache_seconds before the call that returns it.
C5_CachedResponseWithinAgeLimit ==
    ev.kind = "cached" => now - ev.resp.obtained <= http_cache_seconds

\* C6: a get with use_cache that passes the limiter while the cache holds,
\* under its key, a response stored less than http_cache_seconds ago issues
\* no transport call and is processed from that stored response object.
C6_SecondCallServedFromCache ==
    [][\A i \in 1..Len(http_cache) :
          ( /\ ev'.kind \in {"cached", "sent"}
            /\ ev'.method = "get"
            /\ ev'.use_cache
            /\ http_cache[i].key = ev'.cache_key
            /\ now - http_cache[i].set_time < http_cache_seconds )
          => /\ ev'.kind = "cached"
             /\ ev'.resp = http_cache[i].value
             /\ tasks' = tasks]_vars

\* a call was served, later than the response was obtained, from the cache
C6_Witness ==
    /\ ev.kind = "cached"
    /\ ev.use_cache
    /\ ev.resp.obtained < now

\* C7: no step of a call whose method is not get, in any letter case and
\* with or without use_cache, changes the cache, and such a call is never
\* served from the cache: it issues a transport call.
C7_NonGetLeavesCache ==
    [][(ev'.kind \in {"cached", "sent", "fresh", "failed"}
          /\ ev'.method # "get")
          => /\ http_cache' = http_cache
             /\ ev'.kind # "cached"]_vars

\* a POST with use_cache is sent to the transport while the cache holds an
\* expired entry under its key
C7_Witness ==
    /\ ev.kind = "sent"
    /\ ev.method = "post"
    /\ ev.use_cache
    /\ \E i \in 1..Len(http_cache) :
          /\ http_cache[i].key = ev.cache_key
          /\ ~CacheFresh(http_cache[i], now)

----------------------------------------------------------------------------
\* Properties of the result.

HasField(result, name) == \E p \in result.fields : p[1] = name

C11_MalformedBodyGivesEmptyMapping ==
    (Returned(ev) /\ ~ev.get_raw_response /\ ev.resp.text = BodyMalformed)
        => /\ ev.result.type = "dict"
           /\ ev.result.fields = {<<"status_code", ev.resp.status>>}
           /\ Len(SelectSeq(ev.logs, LAMBDA l : l = "ERROR")) = 1

\* a cached response with a malformed body and status 404 was returned
C11_Witness ==
    /\ ev.kind = "cached"
    /\ ~ev.get_raw_response
    /\ ev.resp.text = BodyMalformed
    /\ ev.resp.status = "404"

----------------------------------------------------------------------------
\* Properties of the cache key.

\* the same name/value pairs, in whatever order
SameItems(p, q) ==
    /\ Len(p) = Len(q)
    /\ {p[i] : i \in 1..Len(p)} = {q[i] : i \in 1..Len(q)}

\* a get has just returned and stored its response, and the next step is a
\* get of the same URL with use_cache
GetThenCachedGet ==
    /\ Returned(ev)
    /\ ev.method = "get"
    /\ ev'.kind \in {"cached", "sent"}
    /\ ev'.method = "get"
    /\ ev'.use_cache
    /\ ev'.host = ev.host

\* C12 as claimed: two gets of the same URL with the same parameter pairs,
\* supplied in any order, have the same cache key, so the second, made right
\* after the first has returned, is served from the entry of the first.
C12_SameKeyInAnyOrder ==
    [][(GetThenCachedGet /\ SameItems(ev.params, ev'.params))
          => /\ ev'.cache_key = ev.cache_key
             /\ ev'.kind = "cached"
             /\ ev'.resp = ev.resp]_vars

\* C12 as amended: the cache key is the lower-cased URL followed by the
\* parameters in the order the mapping supplies them: two gets of the same
\* URL with the same pairs in the same order have the same key and the
\* second is served from the entry of the first; with the pairs in another
\* order the keys differ.
C12_SameKeyInSameOrder ==
    [][GetThenCachedGet
          => IF ev'.params = ev.params
             THEN /\ ev'.cache_key = ev.cache_key
                  /\ ev'.kind = "cached"
                  /\ ev'.resp = ev.resp
             ELSE ev'.cache_key # ev.cache_key]_vars

\* a get with two parameters was served from the cache
C12_Witness ==
    /\ ev.kind = "cached"
    /\ Len(ev.params) = 2
    /\ ev.cache_key =
           <<"http://", "example.com", "/", "%20", "?",
             "b", "=", "+", "&", "a", "=", "1">>

----------------------------------------------------------------------------
\* Properties of the transport call.

InFlight(t, key) ==
    /\ tasks[t].pc = "transport"
    /\ tasks[t].method = "get"
    /\ tasks[t].cache_key = key

HoldsFresh(cache, key, t) ==
    \E i \in 1..Len(cache) :
        /\ cache[i].key = key
        /\ t - cache[i].set_time < http_cache_seconds

\* C15: when the transport call of a call fails, the call ends with that
\* failure after its one attempt (the task leaves http_call, nothing is sent
\* again), and neither the cache nor any deque changes.
C15_TransportFailurePropagates ==
    [][ev'.kind = "failed" =>
          /\ \E t \in Tasks :
                /\ tasks[t].pc = "transport"
                /\ tasks[t].cache_key = ev'.cache_key
                /\ tasks' = [tasks EXCEPT ![t] = IdleTask]
          /\ http_cache' = http_cache
          /\ url_rate_limit_history' = url_rate_limit_history]_vars

\* the transport call of a get failed and the cache holds nothing under the
\* key of the call
C15_Witness ==
    /\ ev.kind = "failed"
    /\ ev.method = "get"
    /\ \A i \in 1..Len(http_cache) : http_cache[i].key # ev.cache_key
    /\ \A t \in Tasks : tasks[t].pc = "idle"

\* C18 as claimed: two gets of the same key with use_cache, the second
\* started while the first is suspended in its transport call, issue one
\* transport call: they are never both in their transport call.
C18_OneTransportForConcurrentGets ==
    \A t, u \in Tasks :
        (t # u /\ tasks[t].use_cache /\ tasks[u].use_cache
            /\ InFlight(t, tasks[u].cache_key))
            => ~InFlight(u, tasks[u].cache_key)

\* C18 as amended: a get with use_cache that starts while another task is
\* suspended in its transport call for the same key, the cache holding no
\* fresh entry under the key, is not served from the cache and issues its
\* own transport call: the pair issues two transport calls.
C18_ConcurrentGetsBothCallTransport ==
    [][\A t \in Tasks :
          ( /\ ev'.kind \in {"cached", "sent"}
            /\ ev'.method = "get"
            /\ ev'.use_cache
            /\ InFlight(t, ev'.cache_key)
            /\ tasks[t].use_cache
            /\ ~HoldsFresh(http_cache, ev'.cache_key, now) )
          => /\ ev'.kind = "sent"
             /\ \A u \in Tasks :
                   /\ tasks'[u].pc = "transport"
                   /\ tasks'[u].cache_key = ev'.cache_key]_vars

\* both tasks are in their transport call for the same get with use_cache,
\* the second sent while the first was suspended and nothing was cached
C18_Witness ==
    /\ ev.kind = "sent"
    /\ ev.use_cache
    /\ \A t \in Tasks : InFlight(t, ev.cache_key) /\ tasks[t].use_cache
    /\ http_cache = <<>>

\* C20: the response of every get whose transport call returns is stored
\* under the key of the call, with or without use_cache, and a get of the
\* same key with use_cache that comes next is served from it without a
\* transport call.
C20_EveryGetIsStored ==
    [][/\ (ev'.kind = "fresh" /\ ev'.method = "get")
            => \E i \in 1..Len(http_cache') :
                  /\ http_cache'[i].key = ev'.cache_key
                  /\ http_cache'[i].value = ev'.resp
                  /\ http_cache'[i].set_time = now
       /\ ( /\ ev.kind = "fresh" /\ ev.method = "get" /\ ~ev.use_cache
            /\ ev'.kind \in {"cached", "sent"}
            /\ ev'.method = "get" /\ ev'.use_cache
            /\ ev'.cache_key = ev.cache_key )
            => /\ ev'.kind = "cached"
               /\ ev'.resp = ev.resp
               /\ tasks' = tasks]_vars

\* the transport call of a get without use_cache returned and its response
\* is stored under the key of the call
C20_Witness ==
    /\ ev.kind = "fresh"
    /\ ev.method = "get"
    /\ ~ev.use_cache
    /\ \E i \in 1..Len(http_cache) :
          /\ http_cache[i].key = ev.cache_key
          /\ http_cache[i].value = ev.resp
          /\ http_cache[i].set_time = now

----------------------------------------------------------------------------
\* The reader check.

\* C13: with an empty note_readers list every member passes the reader
\* check; with names in the list the invoker passes exactly when they hold
\* at least one of the listed roles.
C13_EmptyReadersAdmitEveryone ==
    whoEv.op = "is_reader"
        => IF config.note_readers = <<>>
           THEN whoEv.outcome = "pass" /\ ~whoEv.raised
           ELSE whoEv.outcome = "pass"
                   <=> \E i \in 1..Len(config.note_readers) :
                          config.note_readers[i] \in member_roles[whoEv.invoker]

----------------------------------------------------------------------------
\* The refusals of set_note.

\* C14: set_note by a member on themselves, or on a member who holds a role
\* of the guild named in note_bypass, answers with a deny embed, raises
\* nothing, and leaves the stored notes and every member's roles as they
\* were, with no write left pending.
C14_RefusedSetNoteChangesNothing ==
    [][(/\ whoEv'.op = "set_note"
        /\ whoEv'.step = "check"
        /\ \/ whoEv'.invoker = whoEv'.user
           \/ \E i \in 1..Len(config.note_bypass) :
                 /\ config.note_bypass[i] \in guild_roles
                 /\ config.note_bypass[i] \in member_roles[whoEv'.user])
           => /\ whoEv'.embed = "deny"
              /\ ~whoEv'.raised
              /\ notes' = notes
              /\ member_roles' = member_roles
              /\ handlers' = handlers]_vars

\* set_note was refused for a target who holds the second name of
\* note_bypass, the first name being no role of the guild
C14_Witness ==
    /\ whoEv.op = "set_note"
    /\ whoEv.embed = "deny"
    /\ whoEv.invoker # whoEv.user
    /\ Len(config.note_bypass) = 2
    /\ config.note_bypass[1] \notin guild_roles
    /\ config.note_bypass[2] \in member_roles[whoEv.user]

----------------------------------------------------------------------------
\* What the plugin loader registers.

\* the objects the claim expects as commands: the callables, under a name
\* without the marker and other than "commands", of the module files other
\* than __init__.py
ExpectedCommands ==
    { o \in UNION { {f.dict[i] : i \in 1..Len(f.dict)} :
                      f \in {g \in {plugin_files[k] :
                                      k \in 1..Len(plugin_files)} :
                                g.isfile /\ g.name # <<"__init__", ".py">>} } :
         /\ o.kind \in Callables
         /\ ~StartsWithMarker(o.name)
         /\ o.name # <<"commands">> }

\* C17: load_plugins registers exactly the callables of the plugin modules
\* whose name does not start with "__" and is not "commands", and hands no
\* object that is not callable to the bot.
C17_RegistersExactlyCallables ==
    loaderEv.state \in {"loaded", "raised"}
        => /\ {bot_commands[i] : i \in 1..Len(bot_commands)} = ExpectedCommands
           /\ \A i \in 1..Len(loaderEv.calls) :
                 loaderEv.calls[i].kind \in Callables

----------------------------------------------------------------------------
\* The wait of a rejection.

\* C19: the wait of a rejection is max(0, W - (now - t0)), t0 the oldest
\* timestamp left in the deque of the host, and it is tight: as long as no
\* call to the host has passed since the rejection, a call to the host is
\* rejected when made before the wait is over and passes when made at the
\* moment the wait is over or later.
C19_WaitIsExactAndTight ==
    [][\A h \in PolicyHosts :
          (IsCall(ev') /\ ev'.host = h) =>
              /\ ev'.kind = "rejected" =>
                     LET left == Window(h)
                                   - (now - url_rate_limit_history'[h][1])
                     IN  ev'.wait = IF left > 0 THEN left ELSE 0
              /\ retryAt[h] # -1 =>
                     (ev'.kind = "rejected" <=> now < retryAt[h])]_vars

\* a call to the two-call host passed at the very tick the wait of an earlier
\* rejection was over
C19_Witness ==
    /\ ev.kind = "sent"
    /\ ev.host = "api.urbandictionary.com"
    /\ ev.retry = now
    /\ Len(url_rate_limit_history["api.urbandictionary.com"]) = 2

----------------------------------------------------------------------------
\* The slot a call takes in the history of its host.

\* C23: a call to a policy host that passes the limiter appends the time of
\* the call, once, to the deque of the host in the step that runs the
\* limiter, before the call suspends, whether it is then served from the
\* cache or sent; the return and the failure of a transport call leave
\* every deque as it is, and no step takes a timestamp out of a deque
\* unless it has left the window of the host.
C23_PassedCallKeepsItsSlot ==
    [][/\ \A h \in DOMAIN url_rate_limit_history :
             /\ h \in DOMAIN url_rate_limit_history'
             /\ LET dq == url_rate_limit_history'[h]
                    passed == /\ ev'.kind \in {"cached", "sent"}
                              /\ ev'.host = h
                    kept == IF passed /\ dq # <<>>
                            THEN SubSeq(dq, 1, Len(dq) - 1) ELSE dq
                IN  ExpiredPrefixRemoved(url_rate_limit_history[h], kept,
                                         now, Window(h))
       /\ (ev'.kind \in {"cached", "sent"} /\ ev'.host \in PolicyHosts)
             => LET dq == url_rate_limit_history'[ev'.host]
                IN  /\ dq # <<>>
                    /\ dq[Len(dq)] = now
                    /\ Len(dq) = 1 + Len(SelectSeq(
                           HistoryOf(url_rate_limit_history, ev'.host),
                           LAMBDA x : now - x < Window(ev'.host)))
       /\ ev'.kind \in {"fresh", "failed", "tick"}
             => url_rate_limit_history' = url_rate_limit_history]_vars

\* a get with use_cache is rejected by the limiter although the cache holds
\* a fresh entry under its key
C23_Witness ==
    /\ ev.kind = "rejected"
    /\ ev.method = "get"
    /\ ev.use_cache
    /\ \E i \in 1..Len(http_cache) :
          /\ http_cache[i].key = ev.cache_key
          /\ CacheFresh(http_cache[i], now)

----------------------------------------------------------------------------
\* The outcomes of clear_notes.

\* the keys of the rows of a sequence
NoteIds(rows) == {rows[i].id : i \in 1..Len(rows)}

\* C21: clear_notes of a user without notes shows no prompt and changes
\* nothing.  When its prompt times out or is denied, no note is deleted, no
\* role is removed and the command is over, with a deny embed on DENIED and
\* nothing sent on TIMEOUT.  A row is deleted only by a command whose prompt
\* got another answer, and a role is removed only by such a command after
\* its deletes; when that command ends, every row it fetched before the
\* prompt is gone and, if the guild has the configured note role, the user
\* has lost that role in the last step.
C21_ClearNotesOutcomes ==
    [][LET e == whoEv'
           refused == e.value \in {"TIMEOUT", "DENIED"}
       IN  /\ (/\ e.op = "clear_notes"
               /\ e.step = "fetch"
               /\ \A i \in 1..Len(notes) : notes[i].user # e.user)
                  => /\ e.outcome = "no_notes"
                     /\ handlers' = handlers
                     /\ notes' = notes
                     /\ member_roles' = member_roles
           /\ (e.op = "clear_notes" /\ e.step = "answer" /\ refused)
                  => /\ notes' = notes
                     /\ member_roles' = member_roles
                     /\ handlers'[e.h] = IdleHandler
                     /\ e.embed = IF e.value = "DENIED" THEN "deny" ELSE "none"
           /\ \A h \in Handlers :
                 /\ (handlers'[h].pc = "delete" /\ handlers[h].pc # "delete")
                        => /\ handlers[h].pc = "confirm"
                           /\ e.step = "answer" /\ e.h = h /\ ~refused
                 /\ (/\ handlers'[h].pc = "remove_roles"
                     /\ handlers[h].pc # "remove_roles")
                        => /\ handlers[h].pc = "delete"
                           /\ NoteIds(handlers[h].notes) \cap NoteIds(notes')
                                  = {}
           /\ NoteIds(notes) \ NoteIds(notes') # {}
                  => /\ e.op = "clear_notes" /\ e.step = "delete"
                     /\ handlers[e.h].pc = "delete"
                     /\ NoteIds(notes) \ NoteIds(notes')
                            \subseteq NoteIds(handlers[e.h].notes)
           /\ (\E m \in Members : member_roles[m] \ member_roles'[m] # {})
                  => /\ e.op = "clear_notes" /\ e.step = "remove_roles"
                     /\ handlers[e.h].pc = "remove_roles"
           /\ (e.op = "clear_notes" /\ e.outcome = "cleared")
                  => /\ NoteIds(handlers[e.h].notes) \cap NoteIds(notes') = {}
                     /\ IF config.note_role \in guild_roles
                        THEN /\ e.step = "remove_roles"
                             /\ config.note_role \notin member_roles'[e.user]
                        ELSE member_roles' = member_roles]_vars

\* a confirmed clear_notes has deleted two notes and then removed the note
\* role
C21_Witness ==
    /\ whoEv.op = "clear_notes"
    /\ whoEv.step = "remove_roles"
    /\ whoEv.outcome = "cleared"
    /\ note_pk = 2
    /\ notes = <<>>

----------------------------------------------------------------------------
\* What on_member_join does for the joining member.

\* C22: on_member_join goes on to add the note role to the joining member
\* exactly when the extension is enabled, the configured note role is a
\* role of the guild and the table holds a note of the member; it then
\* adds that role and nothing else, and logs.  In every other case the
\* handler is over at once, no member's roles change and nothing is logged.
C22_JoinReaddsRoleOfNotedMember ==
    [][LET e == whoEv'
       IN  /\ (e.op = "on_member_join" /\ e.step = "check")
                  => LET due == /\ config.enabled
                                /\ config.note_role \in guild_roles
                                /\ \E i \in 1..Len(notes) :
                                      notes[i].user = e.user
                     IN  /\ member_roles' = member_roles
                         /\ ~e.logged
                         /\ due <=> /\ handlers'[e.h].pc = "join_add"
                                    /\ handlers'[e.h].user = e.user
                         /\ ~due => handlers' = handlers
           /\ (e.op = "on_member_join" /\ e.step = "add_roles")
                  => /\ handlers[e.h].pc = "join_add"
                     /\ handlers[e.h].user = e.user
                     /\ member_roles' =
                            [member_roles EXCEPT ![e.user] =
                                 @ \cup {config.note_role}]
                     /\ e.logged
                     /\ handlers'[e.h] = IdleHandler
           /\ (member_roles' # member_roles \/ e.logged)
                  => e.op = "on_member_join" /\ e.step = "add_roles"]_vars

\* the note role was added to a joining member who has a note, and logged
C22_Witness ==
    /\ whoEv.op = "on_member_join"
    /\ whoEv.outcome = "readded"
    /\ whoEv.logged
    /\ config.enabled
    /\ config.note_role \in member_roles[whoEv.user]
    /\ \E i \in 1..Len(notes) : notes[i].user = whoEv.user

----------------------------------------------------------------------------
\* clear_notes beside set_note.

\* C24: when a confirmed clear_notes for a user has completed, the user has
\* no note in the guild and does not hold the note role, whatever set_note
\* calls on the same user ran in between.
C24_ClearedUserHasNoNotesNoRole ==
    (whoEv.op = "clear_notes" /\ whoEv.outcome = "cleared")
        => /\ \A i \in 1..Len(notes) : notes[i].user # whoEv.user
           /\ config.note_role \notin member_roles[whoEv.user]

====
